---- MODULE Spec2Model ----
(***************************************************************************)
(* Model of the executable cells of labs/athnlp24-rag-lab.ipynb: the       *)
(* prompting loops over the test split, the tag-based neighbour retrieval, *)
(* the few-shot loop, and the evaluation helpers clean / eval_prediction   *)
(* with the accuracy computation.                                          *)
(*                                                                         *)
(* A Python string is a sequence of tokens.  A token is one character, or  *)
(* one of the two field markers that eval_prediction splits on; Chars      *)
(* spells a marker out into its characters where the code works on         *)
(* characters (strip, clean, indexing).                                    *)
(***************************************************************************)
EXTENDS Integers, Sequences, FiniteSets, TLC

VARIABLES
    qids,            \* pubmedqa_test_data.qids
    choices,         \* pubmedqa_test_data.choices, aligned with qids
    concepts,        \* the concepts of every record, keyed by qid
    data,            \* QUESTION, LONG_ANSWER and final_decision of every record
    hash_order,      \* rank of each train qid when a Python set is iterated
    method,          \* the prompting method whose dict is in predicted
    cell,            \* "start", "tags", "tagged", "loop", "ready" or "evaluated"
    i,               \* index of the outer loop over test_loader
    j,               \* index of the inner loop over train_loader
    neighbors,       \* neighbors dict of the tag-based retrieval cell
    num_shots,       \* num_shots of the few-shot cell
    shots_selected,  \* the last random.sample result
    query,           \* the prompt the few-shot loop assembled last
    predicted,       \* the result dict of the method being run
    calls,           \* number of generator calls issued per test qid
    asked,           \* the question argument of the generator call, per test qid
    error,           \* the exception that ended the running cell, or "none"
    explanations,    \* explanations returned by eval_prediction
    answers,         \* answers returned by eval_prediction
    accuracy,        \* the accuracy of the evaluation cell, as [num, den]
    cleaned,         \* result of the last call of clean
    again            \* clean has been applied to its own result

vars == <<qids, choices, concepts, data, hash_order, method, cell, i, j, neighbors,
          num_shots, shots_selected, query, predicted, calls, asked, error, explanations,
          answers, accuracy, cleaned, again>>

----------------------------------------------------------------------------
(* Bounds *)

\* number of records of the train split (boundaries [0, 990] scaled down)
TrainSize == 2
\* number of records of the test split (boundaries [990, 1000] scaled down)
TestSize == 2
\* longest free generated text, in tokens
MaxLen == 3
\* longest rationale inside a structured generated text, in tokens
MaxRat == 1
\* largest num_shots tried
MaxShots == 3

----------------------------------------------------------------------------
(* The corpus splits *)

train_qids == 0 .. (TrainSize - 1)
test_qids == TrainSize .. (TrainSize + TestSize - 1)

Tags == {"diabetes", "cancer"}
Labels == {"yes", "no", "maybe"}

mapping == [l \in Labels |->
              CASE l = "yes" -> "A" [] l = "no" -> "B" [] l = "maybe" -> "C"]

----------------------------------------------------------------------------
(* Strings *)

RationaleMarker == "\"step_by_step_thinking\":"
AnswerMarker == "\"answer_choice\":"

UpperCase == {"A", "B", "C", "D", "E", "F", "G", "H", "I", "J", "K", "L", "M",
              "N", "O", "P", "Q", "R", "S", "T", "U", "V", "W", "X", "Y", "Z"}
LowerCase == {"a", "b", "c", "d", "e", "f", "g", "h", "i", "j", "k", "l", "m",
              "n", "o", "p", "q", "r", "s", "t", "u", "v", "w", "x", "y", "z"}
Whitespace == {" ", "\n", "\t"}

\* the characters of one token
Chars1(tok) ==
    CASE tok = RationaleMarker ->
           <<"\"", "s", "t", "e", "p", "_", "b", "y", "_", "s", "t", "e", "p", "_",
             "t", "h", "i", "n", "k", "i", "n", "g", "\"", ":">>
      [] tok = AnswerMarker ->
           <<"\"", "a", "n", "s", "w", "e", "r", "_", "c", "h", "o", "i", "c", "e",
             "\"", ":">>
      [] OTHER -> <<tok>>

RECURSIVE Chars(_)
Chars(s) == IF s = <<>> THEN <<>> ELSE Chars1(Head(s)) \o Chars(Tail(s))

\* positions of a marker in a string
Occurrences(s, marker) == {p \in 1 .. Len(s) : s[p] = marker}

Max(S) == CHOOSE x \in S : \A y \in S : y <= x
Min(S) == CHOOSE x \in S : \A y \in S : x <= y

\* mutant: s.split(marker)[1], the segment after the first marker
SplitLast_Second(s, marker) ==
    IF Occurrences(s, marker) = {} THEN s
    ELSE LET first == Min(Occurrences(s, marker))
             later == {p \in Occurrences(s, marker) : p > first}
         IN SubSeq(s, first + 1, IF later = {} THEN Len(s) ELSE Min(later) - 1)

\* s.split(marker)[-1]
SplitLast(s, marker) ==
    IF Occurrences(s, marker) = {} THEN s
    ELSE SubSeq(s, Max(Occurrences(s, marker)) + 1, Len(s))

\* s.split(marker)[0]
SplitFirst(s, marker) ==
    IF Occurrences(s, marker) = {} THEN s
    ELSE SubSeq(s, 1, Min(Occurrences(s, marker)) - 1)

RECURSIVE lstrip(_)
lstrip(s) == IF s # <<>> /\ Head(s) \in Whitespace THEN lstrip(Tail(s)) ELSE s

RECURSIVE rstrip(_)
rstrip(s) ==
    IF s # <<>> /\ s[Len(s)] \in Whitespace THEN rstrip(SubSeq(s, 1, Len(s) - 1))
    ELSE s

\* str.strip() on a string of characters
strip(s) == rstrip(lstrip(s))

\* mutant: the pattern [^A-Za-z0-9.]
Kept_Digits(c) == c \in UpperCase \cup LowerCase \cup {".", "1"}

\* the characters the pattern [^A-Za-z.] does not match
Kept(c) == c \in UpperCase \cup LowerCase \cup {"."}

\* re.sub(r'[^A-Za-z.]+', ' ', answer): every maximal run of other
\* characters becomes one space (its first character is replaced by the
\* space, the rest of the run goes)
SubSpecial(s) ==
    SelectSeq([p \in 1 .. Len(s) |->
                 IF Kept(s[p]) THEN s[p]
                 ELSE IF p = 1 \/ Kept(s[p - 1]) THEN " "
                 ELSE ""],
              LAMBDA c : c # "")

\* re.sub(" +", "", s): every run of spaces is deleted
SubSpaces(s) == SelectSeq(s, LAMBDA c : c # " ")

clean(answer) == SubSpaces(SubSpecial(answer))

----------------------------------------------------------------------------
(* Dicts: a dict is a function; its keys iterate in insertion order, which *)
(* for every dict of the notebook is the order of the loop that fills it.  *)

RECURSIVE Ascending(_)
Ascending(S) == IF S = {} THEN <<>> ELSE <<Min(S)>> \o Ascending(S \ {Min(S)})

keys(d) == Ascending(DOMAIN d)

EmptyDict == [q \in {} |-> <<>>]

\* d[k] = v
Put(d, k, v) == [q \in DOMAIN d \cup {k} |-> IF q = k THEN v ELSE d[q]]

\* a generated answer: a str holds one text, a list any number of texts
Str(text) == [type |-> "str", val |-> <<text>>]
List(texts) == [type |-> "list", val |-> texts]
Other == [type |-> "other", val |-> <<>>]

----------------------------------------------------------------------------
(* eval_prediction *)

\* text.split("\"step_by_step_thinking\":")[-1].split("\"answer_choice\":")[0].strip()
ExplanationOf(text) ==
    strip(Chars(SplitFirst(SplitLast(text, RationaleMarker), AnswerMarker)))

\* clean(text.split("\"answer_choice\":")[-1].strip()), before the [0]
AnswerSegment(text) == clean(strip(Chars(SplitLast(text, AnswerMarker))))

\* Both branches build the same two dicts; the list branch reads the first
\* element of every value.  One generator fills a dict, so its values have
\* one type.
EvalFirst(prediction) ==
    IF \E q \in DOMAIN prediction : prediction[q].val = <<>>
      THEN [error |-> "IndexError"]
    ELSE IF \E q \in DOMAIN prediction : AnswerSegment(prediction[q].val[1]) = <<>>
      THEN [error |-> "IndexError"]
    ELSE [error |-> "none",
          explanations |-> [q \in DOMAIN prediction |->
                              ExplanationOf(prediction[q].val[1])],
          answers |-> [q \in DOMAIN prediction |->
                         AnswerSegment(prediction[q].val[1])[1]]]

eval_prediction(prediction) ==
    IF keys(prediction) = <<>> THEN [error |-> "IndexError"]
    ELSE IF prediction[keys(prediction)[1]].type = "str" THEN EvalFirst(prediction)
    ELSE IF prediction[keys(prediction)[1]].type = "list" THEN EvalFirst(prediction)
    ELSE [error |-> "NotImplementedError"]

----------------------------------------------------------------------------
(* The evaluation cell *)

\* {qids[idx]: mapping[choices[idx]] for idx in range(len(qids))}
ground_truth ==
    [q \in {qids[idx] : idx \in 1 .. Len(qids)} |->
        mapping[choices[CHOOSE idx \in 1 .. Len(qids) : qids[idx] = q]]]

\* [answers[qid] == ground_truth[qid] for qid in answers.keys()].count(True)
RECURSIVE CountTrue(_, _, _)
CountTrue(ks, ans, gold) ==
    IF ks = <<>> THEN 0
    ELSE (IF ans[Head(ks)] = gold[Head(ks)] THEN 1 ELSE 0)
         + CountTrue(Tail(ks), ans, gold)

\* mutant: divides by the number of answered records, len(answers)
Accuracy_OverAnswered(ans, gold) ==
    [num |-> CountTrue(keys(ans), ans, gold), den |-> Len(keys(ans))]

\* the quotient is kept as numerator and denominator
Accuracy(ans, gold) ==
    [num |-> CountTrue(keys(ans), ans, gold), den |-> Len(qids)]

\* explanations, answers = eval_prediction(predicted_...); accuracy = ...
Evaluate ==
    /\ cell = "ready"
    /\ error = "none"
    /\ LET r == eval_prediction(predicted) IN
         IF r.error # "none"
           THEN /\ error' = r.error
                /\ UNCHANGED <<cell, explanations, answers, accuracy>>
         ELSE IF \E q \in DOMAIN r.answers : q \notin DOMAIN ground_truth
           THEN /\ error' = "KeyError"
                /\ explanations' = r.explanations
                /\ answers' = r.answers
                /\ UNCHANGED <<cell, accuracy>>
         ELSE IF Len(qids) = 0
           THEN /\ error' = "ZeroDivisionError"
                /\ explanations' = r.explanations
                /\ answers' = r.answers
                /\ UNCHANGED <<cell, accuracy>>
         ELSE /\ explanations' = r.explanations
              /\ answers' = r.answers
              /\ accuracy' = Accuracy(r.answers, ground_truth)
              /\ cell' = "evaluated"
              /\ error' = "none"
    /\ UNCHANGED <<qids, choices, concepts, data, hash_order, method, i, j, neighbors,
                   num_shots, shots_selected, query, predicted, calls, asked, cleaned,
                   again>>

----------------------------------------------------------------------------
(* clean, applied to a generated text and then to its own result *)

NotCalled == <<"<not called>">>

CleanCall ==
    /\ cell = "ready"
    /\ cleaned = NotCalled
    /\ \E q \in DOMAIN predicted :
         /\ predicted[q].val # <<>>
         /\ cleaned' = clean(Chars(predicted[q].val[1]))
    /\ UNCHANGED <<qids, choices, concepts, data, hash_order, method, cell, i, j,
                   neighbors, num_shots, shots_selected, query, predicted, calls, asked,
                   error, explanations, answers, accuracy, again>>

CleanAgain ==
    /\ cleaned # NotCalled
    /\ ~again
    /\ cleaned' = clean(cleaned)
    /\ again' = TRUE
    /\ UNCHANGED <<qids, choices, concepts, data, hash_order, method, cell, i, j,
                   neighbors, num_shots, shots_selected, query, predicted, calls, asked,
                   error, explanations, answers, accuracy>>

----------------------------------------------------------------------------
(* Generated texts *)

Alphabet == {"A", "B", ".", " ", "1", RationaleMarker, AnswerMarker}

SeqsUpTo(S, n) == UNION {[1 .. m -> S] : m \in 0 .. n}

FreeTexts == SeqsUpTo(Alphabet, MaxLen)

AnswerSymbols == {"A", "B", "C"}

\* {"step_by_step_thinking": "<rationale>","answer_choice": "<S>"}
Structured(rationale, S) ==
    <<"{", RationaleMarker, " ", "\"">> \o rationale
       \o <<"\"", ",", AnswerMarker, " ", "\"", S, "\"", "}">>

Rationales == SeqsUpTo(Alphabet, MaxRat) \cup {<<"o", "k">>}

StructuredTexts == {Structured(r, S) : r \in Rationales, S \in AnswerSymbols}

\* what the generator returns in the loops: two well-formed answers, an
\* answer without markers, and an answer with nothing after the marker
GenTexts == {Structured(<<"o", "k">>, "A"), Structured(<<"o", "k">>, "B"),
             <<"B", ".">>, <<AnswerMarker, " ", "1">>}

GenLists == {<<>>} \cup {<<t>> : t \in GenTexts}
               \cup {<<t, <<AnswerMarker, " ", "1">> >> : t \in GenTexts}

----------------------------------------------------------------------------
(* Initial states *)

NoAccuracy == [num |-> 0, den |-> 0]

NoQuery == [shots |-> <<>>, question |-> -1, text |-> <<>>]

Digits == <<"0", "1", "2", "3", "4", "5", "6", "7", "8", "9">>

\* a corpus whose record q asks "Q<q>?", is explained by "ok." and is
\* decided yes, no, maybe in turn
DefaultData ==
    [q \in train_qids \cup test_qids |->
       [QUESTION |-> <<"Q", Digits[q + 1], "?">>,
        LONG_ANSWER |-> <<"o", "k", ".">>,
        final_decision |-> <<"yes", "no", "maybe">>[(q % 3) + 1]]]

\* the set order in which the train qids iterate ascending
Identity(S) == [q \in S |-> q + 1]

\* the part of the state no cell has written yet
Fresh ==
    /\ i = 0
    /\ j = 0
    /\ neighbors = EmptyDict
    /\ num_shots = 0
    /\ shots_selected = <<>>
    /\ query = NoQuery
    /\ calls = [q \in test_qids |-> 0]
    /\ asked = EmptyDict
    /\ error = "none"
    /\ explanations = EmptyDict
    /\ answers = EmptyDict
    /\ accuracy = NoAccuracy
    /\ cleaned = NotCalled
    /\ again = FALSE

\* a test split of one record whose answer is any text
InitOne ==
    /\ qids = <<TrainSize>>
    /\ choices \in [1 .. 1 -> Labels]
    /\ \E text \in FreeTexts \cup StructuredTexts :
         predicted = Put(EmptyDict, TrainSize, Str(text))

\* the whole test split; a prompting loop has answered its first k records
InitMany ==
    /\ qids = Ascending(test_qids)
    /\ choices \in [1 .. TestSize -> Labels]
    /\ \E k \in 0 .. TestSize :
         LET done == {qids[idx] : idx \in 1 .. k} IN
           \/ predicted \in [done -> {Str(t) : t \in GenTexts}]
           \/ predicted \in [done -> {List(l) : l \in GenLists}]
           \/ predicted \in [done -> {Other}]

InitEval ==
    /\ InitOne \/ InitMany
    /\ concepts = [q \in train_qids \cup test_qids |-> {}]
    /\ data = DefaultData
    /\ hash_order = Identity(train_qids)
    /\ method = "cot1"
    /\ cell = "ready"
    /\ Fresh

NextEval == Evaluate \/ CleanCall \/ CleanAgain

SpecEval == InitEval /\ [][NextEval]_vars

----------------------------------------------------------------------------
(* Properties of the evaluation helpers, checked under SpecEval *)

\* the single text of a str answer / the first text of a list answer
FirstText(q) == predicted[q].val[1]

\* C2: the accuracy is the number of gold ids whose predicted symbol equals
\* the gold symbol, over the number of gold ids; a gold id without a
\* prediction counts as incorrect and raises nothing; the value lies in
\* [0,1], is 1 when the predictions equal the gold mapping and 0 when every
\* predicted symbol differs from gold.
C2_Accuracy ==
    /\ error \notin {"KeyError", "ZeroDivisionError"}
    /\ cell = "evaluated" =>
         /\ accuracy.den = Cardinality(DOMAIN ground_truth)
         /\ accuracy.num =
              Cardinality({q \in DOMAIN ground_truth :
                             q \in DOMAIN answers /\ answers[q] = ground_truth[q]})
         /\ accuracy.den > 0
         /\ 0 <= accuracy.num
         /\ accuracy.num <= accuracy.den
         /\ answers = ground_truth => accuracy.num = accuracy.den
         /\ (\A q \in DOMAIN answers : answers[q] # ground_truth[q])
              => accuracy.num = 0

\* a gold id has no prediction and the other prediction is correct: 1/2
C2_Witness ==
    /\ cell = "evaluated"
    /\ \E q \in DOMAIN ground_truth : q \notin DOMAIN answers
    /\ accuracy.num = 1
    /\ accuracy.den = TestSize

\* C3: a text of the shape {"step_by_step_thinking": r,"answer_choice": "S"}
\* is evaluated without error to the answer symbol S, and a test split of
\* that one record scores 1/1 when S is the mapped gold label, else 0/1.
C3_StructuredAnswer ==
    /\ (predicted # EmptyDict
        /\ \A q \in DOMAIN predicted :
             predicted[q].type = "str" /\ FirstText(q) \in StructuredTexts)
        => error = "none"
    /\ cell = "evaluated" =>
         \A q \in DOMAIN predicted :
            (predicted[q].type = "str" /\ FirstText(q) \in StructuredTexts) =>
               /\ answers[q] = FirstText(q)[Len(FirstText(q)) - 2]
               /\ Len(qids) = 1 =>
                    /\ accuracy.den = 1
                    /\ accuracy.num = IF answers[q] = mapping[choices[1]] THEN 1 ELSE 0

\* the stub text of the end-to-end scenario scores 1.0 against gold "yes"
C3_Witness ==
    /\ cell = "evaluated"
    /\ Len(qids) = 1
    /\ predicted[qids[1]] = Str(Structured(<<"o", "k">>, "A"))
    /\ choices[1] = "yes"
    /\ answers[qids[1]] = "A"
    /\ accuracy = [num |-> 1, den |-> 1]

\* C4: eval_prediction fails, returning no answers, whenever a text lacks
\* the rationale marker or the answer marker or its cleaned answer segment
\* is empty.
C4_MalformedAnswer ==
    cell = "evaluated" =>
       \A q \in DOMAIN predicted :
          /\ Occurrences(FirstText(q), RationaleMarker) # {}
          /\ Occurrences(FirstText(q), AnswerMarker) # {}
          /\ AnswerSegment(FirstText(q)) # <<>>

\* C5: a record whose answer cannot be parsed does not abort the
\* evaluation: every other record of the dict ends with its parsed answer.
C5_PerRecordErrors ==
    (cell = "evaluated" \/ error # "none") =>
       \A q \in DOMAIN predicted :
          (/\ predicted[q].val # <<>>
           /\ AnswerSegment(FirstText(q)) # <<>>)
          => /\ q \in DOMAIN answers
             /\ answers[q] = AnswerSegment(FirstText(q))[1]

\* C9: the result of clean holds only letters, periods and spaces, and
\* clean maps it to itself, so a repeated call returns the same string with
\* the same first character.
C9_CleanIdempotent ==
    cleaned # NotCalled =>
       /\ \A p \in 1 .. Len(cleaned) :
             cleaned[p] \in UpperCase \cup LowerCase \cup {".", " "}
       /\ clean(cleaned) = cleaned
       /\ again => \E q \in DOMAIN predicted :
                      /\ predicted[q].val # <<>>
                      /\ cleaned = clean(Chars(FirstText(q)))

\* clean was applied twice to a text that holds characters it removes
C9_Witness ==
    /\ again
    /\ cleaned = <<"A", ".">>
    /\ predicted[qids[1]] = Str(<<"A", "1", ".">>)

----------------------------------------------------------------------------
(* The tag-based neighbour retrieval cell *)

\* the loaders yield the records of a split in order, one per batch
train_loader == Ascending(train_qids)
test_loader == qids

\* Position of a qid when a Python set is iterated.  The order is fixed by
\* the hashes of the process; hash_order ranks the train qids, the only ones
\* the cell puts in a list.
Rank(x) == IF x \in DOMAIN hash_order THEN hash_order[x] ELSE TrainSize + 1 + x

RECURSIVE ByRank(_)
ByRank(S) ==
    IF S = {} THEN <<>>
    ELSE LET x == CHOOSE y \in S : \A z \in S : Rank(y) <= Rank(z)
         IN <<x>> \o ByRank(S \ {x})

\* list(set(l))
ListOfSet(l) == ByRank({l[p] : p \in 1 .. Len(l)})

\* mutant: set(c) <= set(c_neig), which an empty query satisfies
TagsMatch_Subset(c, c_neig) == c \subseteq c_neig

\* bool(set([c[0] for c in concepts]) & set([c[0] for c in concepts])):
\* both operands are the concepts of the test record
TagsMatch(c, c_neig) == (c \cap c) # {}

\* mutant: appends the id of the test record
Appended_Query(l, q, q_neig) == Append(l, q)

\* neighbors[qid[0]].append(qid_neig[0])
Appended(l, q, q_neig) == Append(l, q_neig)

\* neighbors = {}
StartTags ==
    /\ cell = "start"
    /\ cell' = "tags"
    /\ neighbors' = EmptyDict
    /\ i' = 0
    /\ j' = 0
    /\ UNCHANGED <<qids, choices, concepts, data, hash_order, method, num_shots,
                   shots_selected, query, predicted, calls, asked, error, explanations,
                   answers, accuracy, cleaned, again>>

\* the outer loop takes the next test record: neighbors[qid[0]] = []
TagOuter ==
    /\ cell = "tags"
    /\ i < Len(test_loader)
    /\ i = 0 \/ j = Len(train_loader)
    /\ neighbors' = Put(neighbors, test_loader[i + 1], <<>>)
    /\ i' = i + 1
    /\ j' = 0
    /\ UNCHANGED <<qids, choices, concepts, data, hash_order, method, cell, num_shots,
                   shots_selected, query, predicted, calls, asked, error, explanations,
                   answers, accuracy, cleaned, again>>

\* one iteration of the inner loop over the train records
TagInner ==
    /\ cell = "tags"
    /\ i > 0
    /\ j < Len(train_loader)
    /\ LET q == test_loader[i]
           q_neig == train_loader[j + 1]
           l == IF TagsMatch(concepts[q], concepts[q_neig])
                  THEN Appended(neighbors[q], q, q_neig)
                  ELSE neighbors[q]
       IN neighbors' = Put(neighbors, q, ListOfSet(l))
    /\ j' = j + 1
    /\ UNCHANGED <<qids, choices, concepts, data, hash_order, method, cell, i, num_shots,
                   shots_selected, query, predicted, calls, asked, error, explanations,
                   answers, accuracy, cleaned, again>>

\* both loops are over; the cell shows neighbors[list(neighbors.keys())[0]]
TagsDone ==
    /\ cell = "tags"
    /\ i = Len(test_loader)
    /\ i = 0 \/ j = Len(train_loader)
    /\ IF keys(neighbors) = <<>>
         THEN error' = "IndexError" /\ UNCHANGED cell
         ELSE cell' = "tagged" /\ UNCHANGED error
    /\ UNCHANGED <<qids, choices, concepts, data, hash_order, method, i, j, neighbors,
                   num_shots, shots_selected, query, predicted, calls, asked, explanations,
                   answers, accuracy, cleaned, again>>

\* the orders in which a set of the train qids can iterate
HashOrders ==
    {h \in [train_qids -> 1 .. TrainSize] :
        \A x, y \in train_qids : x # y => h[x] # h[y]}

\* any tagging of the corpus
InitTags ==
    /\ qids = Ascending(test_qids)
    /\ choices = [idx \in 1 .. TestSize |-> "yes"]
    /\ concepts \in [train_qids \cup test_qids -> SUBSET Tags]
    /\ data = DefaultData
    /\ hash_order \in HashOrders
    /\ method = "none"
    /\ cell = "start"
    /\ predicted = EmptyDict
    /\ Fresh

NextTags == StartTags \/ TagOuter \/ TagInner \/ TagsDone

SpecTags == InitTags /\ [][NextTags]_vars

----------------------------------------------------------------------------
(* Properties of the tag-based retrieval, checked under SpecTags *)

Listed(q) == {neighbors[q][p] : p \in 1 .. Len(neighbors[q])}

\* C1: once the cell has run, every neighbour listed for a test record with
\* a non-empty concepts set shares at least one tag with it.
C1_TagOverlapSound ==
    cell = "tagged" =>
       \A q \in DOMAIN neighbors :
          concepts[q] # {} =>
             \A q_neig \in Listed(q) : concepts[q_neig] \cap concepts[q] # {}

\* C8: every listed id is a train qid, never the test record itself nor
\* another test qid, and no id is listed twice.
C8_NeighborSetWellFormed ==
    /\ train_qids \cap test_qids = {}
    /\ \A q \in DOMAIN neighbors :
          /\ q \in test_qids
          /\ \A p \in 1 .. Len(neighbors[q]) :
                /\ neighbors[q][p] \in train_qids
                /\ neighbors[q][p] # q
                /\ neighbors[q][p] \notin test_qids
          /\ \A p1, p2 \in 1 .. Len(neighbors[q]) :
                p1 # p2 => neighbors[q][p1] # neighbors[q][p2]

\* an inner loop has listed every train record for its test record
C8_Witness ==
    /\ cell = "tags"
    /\ i > 0
    /\ j = TrainSize
    /\ Listed(test_loader[i]) = train_qids
    /\ Len(neighbors[test_loader[i]]) > 1

\* C10: a test record without concepts has an empty neighbour list,
\* whatever the train records hold.
C10_EmptyQueryNoNeighbors ==
    \A q \in DOMAIN neighbors : concepts[q] = {} => neighbors[q] = <<>>

\* the cell has run over a test record without concepts and a train record
\* without concepts, next to a test record that got neighbours
C10_Witness ==
    /\ cell = "tagged"
    /\ \E q \in DOMAIN neighbors : concepts[q] = {} /\ neighbors[q] = <<>>
    /\ \E q_neig \in train_qids : concepts[q_neig] = {}
    /\ \E q \in DOMAIN neighbors : neighbors[q] # <<>>

----------------------------------------------------------------------------
(* The prompting loops *)

\* what llm.answer / medrag.answer may return for a question
Generated == {Str(t) : t \in GenTexts}

\* mutant: the generator is called a second time for the record
Call_Twice(q) == [calls EXCEPT ![q] = @ + 2]

\* one generator call for test record q
Call(q) == [calls EXCEPT ![q] = @ + 1]

\* predicted_... = {} at the top of a prompting cell
StartLoop(m) ==
    /\ method' = m
    /\ cell' = "loop"
    /\ predicted' = EmptyDict
    /\ i' = 0
    /\ UNCHANGED <<qids, choices, concepts, data, hash_order, j, neighbors,
                   shots_selected, query, calls, asked, error, explanations, answers,
                   accuracy, cleaned, again>>

StartLlm == cell = "start" /\ StartLoop("llm") /\ UNCHANGED num_shots

StartCot1 == cell = "start" /\ StartLoop("cot1") /\ UNCHANGED num_shots

\* num_shots = 3 in the notebook; the number of shots is what the lab varies
StartFs ==
    /\ cell = "tagged"
    /\ StartLoop("fs")
    /\ num_shots' \in 0 .. MaxShots

StartRag ==
    /\ cell = "start"
    /\ StartLoop("rag")
    /\ num_shots' \in 0 .. MaxShots

\* the vanilla loop: only the first record is answered (if i == 0)
LlmStep ==
    /\ cell = "loop" /\ method = "llm" /\ error = "none"
    /\ i < Len(test_loader)
    /\ IF i = 0
         THEN \E answer \in Generated :
                 /\ predicted' = Put(predicted, test_loader[i + 1], answer)
                 /\ calls' = Call(test_loader[i + 1])
                 /\ asked' = Put(asked, test_loader[i + 1],
                                 data[test_loader[i + 1]].QUESTION)
         ELSE UNCHANGED <<predicted, calls, asked>>
    /\ i' = i + 1
    /\ UNCHANGED <<qids, choices, concepts, data, hash_order, method, cell, j, neighbors,
                   num_shots, shots_selected, query, error, explanations, answers,
                   accuracy, cleaned, again>>

\* one iteration of a loop that answers every record: medrag_cot.answer with
\* k=0 (structured prompting) or medrag.answer with k=num_shots (RAG)
AnswerStep(m) ==
    /\ cell = "loop" /\ method = m /\ error = "none"
    /\ i < Len(test_loader)
    /\ \E answer \in Generated :
          predicted' = Put(predicted, test_loader[i + 1], answer)
    /\ calls' = Call(test_loader[i + 1])
    /\ asked' = Put(asked, test_loader[i + 1], data[test_loader[i + 1]].QUESTION)
    /\ i' = i + 1
    /\ UNCHANGED <<qids, choices, concepts, data, hash_order, method, cell, j, neighbors,
                   num_shots, shots_selected, query, error, explanations, answers,
                   accuracy, cleaned, again>>

Cot1Step == AnswerStep("cot1")

RagStep == AnswerStep("rag")

\* the sequences of k distinct elements of list l
Arrangements(l, k) ==
    {[p \in 1 .. k |-> l[f[p]]] :
        f \in {g \in [1 .. k -> 1 .. Len(l)] :
                 \A p1, p2 \in 1 .. k : p1 # p2 => g[p1] # g[p2]}}

\* mutant: min(num_shots, len(population)) elements are drawn
Sample_Fewer(l, k) == Arrangements(l, IF k > Len(l) THEN Len(l) ELSE k)

\* random.sample(population, k): the possible results; none when k exceeds
\* the population, where random.sample raises ValueError
Sample(l, k) == IF k > Len(l) THEN {} ELSE Arrangements(l, k)

\* mutant: the label itself is written, without the mapping
Demonstration_RawLabel(shot) ==
    data[shot].QUESTION \o <<" ", "{", RationaleMarker, " ", "\"">>
       \o data[shot].LONG_ANSWER
       \o <<AnswerMarker, " ", "\"", data[shot].final_decision, "\"", "}",
            "\n", " ", "\n">>

\* the block the loop appends to query for one shot:
\* QUESTION + " {\"step_by_step_thinking\": \"" + LONG_ANSWER
\*   + "\"answer_choice\": \"" + mapping[final_decision] + "\"}\n \n"
Demonstration(shot) ==
    data[shot].QUESTION \o <<" ", "{", RationaleMarker, " ", "\"">>
       \o data[shot].LONG_ANSWER
       \o <<AnswerMarker, " ", "\"", mapping[data[shot].final_decision], "\"", "}",
            "\n", " ", "\n">>

\* query after the loop over shots_selected and query += question[0]
RECURSIVE QueryText(_, _)
QueryText(shots, q) ==
    IF shots = <<>> THEN data[q].QUESTION
    ELSE Demonstration(Head(shots)) \o QueryText(Tail(shots), q)

\* one iteration of the few-shot loop
FsStep ==
    /\ cell = "loop" /\ method = "fs" /\ error = "none"
    /\ i < Len(test_loader)
    /\ LET q == test_loader[i + 1] IN
         IF q \notin DOMAIN neighbors
           THEN /\ error' = "KeyError"
                /\ UNCHANGED <<i, shots_selected, query, predicted, calls, asked>>
         ELSE IF Sample(neighbors[q], num_shots) = {}
           THEN /\ error' = "ValueError"
                /\ UNCHANGED <<i, shots_selected, query, predicted, calls, asked>>
         ELSE \E shots \in Sample(neighbors[q], num_shots) :
                 /\ shots_selected' = shots
                 /\ query' = [shots |-> shots, question |-> q,
                               text |-> QueryText(shots, q)]
                 /\ \E answer \in Generated : predicted' = Put(predicted, q, answer)
                 /\ calls' = Call(q)
                 /\ asked' = Put(asked, q, data[q].QUESTION)
                 /\ i' = i + 1
                 /\ UNCHANGED error
    /\ UNCHANGED <<qids, choices, concepts, data, hash_order, method, cell, j, neighbors,
                   num_shots, explanations, answers, accuracy, cleaned, again>>

\* the loop is over: write_dict and the display of the first answer
Finish ==
    /\ cell = "loop" /\ error = "none"
    /\ i = Len(test_loader)
    /\ IF keys(predicted) = <<>>
         THEN error' = "IndexError" /\ UNCHANGED cell
         ELSE cell' = "ready" /\ UNCHANGED error
    /\ UNCHANGED <<qids, choices, concepts, data, hash_order, method, i, j, neighbors,
                   num_shots, shots_selected, query, predicted, calls, asked, explanations,
                   answers, accuracy, cleaned, again>>

\* a corpus whose records carry one tag or none
Init ==
    /\ qids = Ascending(test_qids)
    /\ choices = [idx \in 1 .. TestSize |-> "yes"]
    /\ concepts \in [train_qids \cup test_qids -> {{}, {"diabetes"}}]
    /\ data = DefaultData
    /\ hash_order = Identity(train_qids)
    /\ method = "none"
    /\ cell = "start"
    /\ predicted = EmptyDict
    /\ Fresh

Next ==
    \/ StartLlm \/ LlmStep
    \/ StartCot1 \/ Cot1Step
    \/ StartTags \/ TagOuter \/ TagInner \/ TagsDone
    \/ StartFs \/ FsStep
    \/ StartRag \/ RagStep
    \/ Finish

Spec == Init /\ [][Next]_vars

----------------------------------------------------------------------------
(* Properties of the prompting loops, checked under Spec *)

FirstTestQid == test_loader[1]

\* C6: when a test record has fewer neighbours than num_shots the few-shot
\* loop fails at once at that record: it samples no smaller set, assembles
\* no prompt, does not call the generator and records no answer for it.
C6_InsufficientNeighbors ==
    method = "fs" =>
       /\ \A q \in test_qids :
             (q \in DOMAIN predicted \/ calls[q] > 0 \/ query.question = q)
                => Len(neighbors[q]) >= num_shots
       /\ Len(shots_selected) \in {0, num_shots}
       /\ \A idx \in 1 .. i : Len(neighbors[test_loader[idx]]) >= num_shots
       /\ (cell = "loop" /\ i < Len(test_loader)
           /\ Len(neighbors[test_loader[i + 1]]) < num_shots)
             => error \in {"none", "ValueError"}
       /\ error = "ValueError" =>
             /\ i < Len(test_loader)
             /\ Len(neighbors[test_loader[i + 1]]) < num_shots
             /\ test_loader[i + 1] \notin DOMAIN predicted
             /\ calls[test_loader[i + 1]] = 0
             /\ query.question # test_loader[i + 1]

\* the loop failed at a record that has neighbours, but fewer than num_shots
C6_Witness ==
    /\ method = "fs"
    /\ error = "ValueError"
    /\ neighbors[test_loader[i + 1]] # <<>>
    /\ Len(neighbors[test_loader[i + 1]]) < num_shots
    /\ test_loader[i + 1] \notin DOMAIN predicted

C11_AssembledPromptAsked ==
    (method = "fs" /\ query # NoQuery) =>
       /\ Len(query.shots) = num_shots
       /\ query.text = QueryText(query.shots, query.question)
       /\ query.question \in DOMAIN asked
       /\ asked[query.question] = query.text

----------------------------------------------------------------------------
(* The demonstration block read back by eval_prediction *)

\* questions with and without the markers
QuestionPool == {<<"A", "1">>, <<"B", AnswerMarker, " ">>, <<RationaleMarker, ".">>}

\* eval_prediction applied to the block built for one train record
ParseDemonstration ==
    /\ cell = "start"
    /\ \E shot \in train_qids :
         LET prediction == Put(EmptyDict, shot, Str(Demonstration(shot)))
             r == eval_prediction(prediction)
         IN /\ predicted' = prediction
            /\ IF r.error # "none"
                 THEN /\ error' = r.error
                      /\ UNCHANGED <<explanations, answers>>
                 ELSE /\ explanations' = r.explanations
                      /\ answers' = r.answers
                      /\ UNCHANGED error
    /\ cell' = "parsed"
    /\ UNCHANGED <<qids, choices, concepts, data, hash_order, method, i, j, neighbors,
                   num_shots, shots_selected, query, calls, asked, accuracy, cleaned,
                   again>>

\* the first train record is any record with a label of the mapping
InitDemo ==
    /\ qids = Ascending(test_qids)
    /\ choices = [idx \in 1 .. TestSize |-> "yes"]
    /\ concepts = [q \in train_qids \cup test_qids |-> {}]
    /\ \E question \in QuestionPool, long_answer \in FreeTexts, decision \in Labels :
         data = [DefaultData EXCEPT ![0] = [QUESTION |-> question,
                                            LONG_ANSWER |-> long_answer,
                                            final_decision |-> decision]]
    /\ hash_order = Identity(train_qids)
    /\ method = "none"
    /\ cell = "start"
    /\ predicted = EmptyDict
    /\ Fresh

NextDemo == ParseDemonstration

SpecDemo == InitDemo /\ [][NextDemo]_vars

HasMarker(text, marker) == Occurrences(text, marker) # {}

\* C12: for a train record whose label is yes, no or maybe and whose
\* QUESTION and LONG_ANSWER hold no answer marker, eval_prediction reads the
\* symbol mapping[final_decision] back from its demonstration block.
C12_DemonstrationRoundTrip ==
    cell = "parsed" =>
       \A shot \in DOMAIN predicted :
          (/\ data[shot].final_decision \in Labels
           /\ ~HasMarker(data[shot].QUESTION, AnswerMarker)
           /\ ~HasMarker(data[shot].LONG_ANSWER, AnswerMarker))
          => /\ error = "none"
             /\ shot \in DOMAIN answers
             /\ answers[shot] = mapping[data[shot].final_decision]

\* the block of a record decided "maybe", whose rationale holds a rationale
\* marker and a digit, was read back as C
C12_Witness ==
    /\ cell = "parsed"
    /\ 0 \in DOMAIN predicted
    /\ data[0].final_decision = "maybe"
    /\ data[0].LONG_ANSWER = <<RationaleMarker, "1", ".">>
    /\ ~HasMarker(data[0].QUESTION, AnswerMarker)
    /\ answers[0] = "C"

====
